---- MODULE Spec2Model ----
(***************************************************************************)
(* Model of selfdrive/car/retrofit: the firmware fingerprint engine of     *)
(* values.py (get_platform_codes, match_fw_to_car_fuzzy) and the command   *)
(* assembly of carcontroller.py (CarController.update) with the message    *)
(* builders of retrofitcan.py.                                             *)
(*                                                                         *)
(* Bytes are the integers 0..255, a bytes object is a sequence of them.    *)
(* A Python dict is a function whose DOMAIN is its key set.                *)
(***************************************************************************)
EXTENDS Integers, Sequences, FiniteSets, TLC

VARIABLES
  \* get_platform_codes: the argument and the outcome of up to two calls
  fw_versions, codes, fw_other, codes_other, called,
  \* match_fw_to_car_fuzzy: the catalog, the observed fingerprint, the outcome
  FW_VERSIONS, live_fw_versions, matched,
  \* CarController: the object's fields, and what the last update call did
  CP, frame, last_steer, last_angle, steer_rate_counter, gas, accel, last_call

vars == <<fw_versions, codes, fw_other, codes_other, called,
          FW_VERSIONS, live_fw_versions, matched,
          CP, frame, last_steer, last_angle, steer_rate_counter, gas, accel, last_call>>

codeVars == <<fw_versions, codes, fw_other, codes_other, called>>
matchVars == <<FW_VERSIONS, live_fw_versions, matched>>
ctlVars == <<CP, frame, last_steer, last_angle, steer_rate_counter, gas, accel, last_call>>

(***************************************************************************)
(* Bytes                                                                   *)
(***************************************************************************)
Min(a, b) == IF a <= b THEN a ELSE b
Max(a, b) == IF a >= b THEN a ELSE b

\* the character class [A-Z0-9] of the three firmware patterns
IsAlnumUpper(b) == (b >= 48 /\ b <= 57) \/ (b >= 65 /\ b <= 90)

\* the argument of .strip(b'\x00 ')
STRIP_BYTES == {0, 32}

RECURSIVE LStrip(_)
LStrip(s) == IF s # <<>> /\ Head(s) \in STRIP_BYTES THEN LStrip(Tail(s)) ELSE s

RECURSIVE RStrip(_)
RStrip(s) ==
  IF s # <<>> /\ s[Len(s)] \in STRIP_BYTES THEN RStrip(SubSeq(s, 1, Len(s) - 1)) ELSE s

\* bytes.strip: leading and trailing bytes of the set removed
Strip(s) == RStrip(LStrip(s))

\* the Python slice s[a:b] (0-based, half open, clamped to the length)
Slice(s, a, b) == SubSeq(s, Min(a, Len(s)) + 1, Min(b, Len(s)))

\* b'-'.join(parts)
RECURSIVE Join(_)
Join(parts) ==
  IF Len(parts) = 0 THEN <<>>
  ELSE IF Len(parts) = 1 THEN parts[1]
  ELSE parts[1] \o <<45>> \o Join(Tail(parts))

(***************************************************************************)
(* The firmware patterns.  Each is a run of [A-Z0-9] classes: `pre' of     *)
(* them outside any group, then one group per width in `groups'.           *)
(***************************************************************************)
\* mutant: the leading class left out of the short pattern
SHORT_FW_PATTERN_NoLead == [pre |-> 0, groups |-> <<2, 2, 3>>]

\* mutant: the medium pattern with the widths of major and sub version swapped
MEDIUM_FW_PATTERN_Swapped == [pre |-> 0, groups |-> <<5, 2, 2, 1>>]

SHORT_FW_PATTERN == [pre |-> 1, groups |-> <<2, 2, 3>>]
MEDIUM_FW_PATTERN == [pre |-> 0, groups |-> <<5, 2, 1, 2>>]
LONG_FW_PATTERN == [pre |-> 0, groups |-> <<5, 2, 2, 3>>]

\* mutant: the length code class starting at \x00
FW_LEN_CODE_FromZero == 0..3

\* first bytes FW_LEN_CODE = ^[\x01-\x03] accepts
FW_LEN_CODE == 1..3
FW_CHUNK_LEN == 16

RECURSIVE SumSeq(_)
SumSeq(w) == IF w = <<>> THEN 0 ELSE Head(w) + SumSeq(Tail(w))

PatternLen(pat) == pat.pre + SumSeq(pat.groups)

\* the pattern matches the bytes of s that start at offset i (0-based)
MatchesAt(pat, s, i) ==
  /\ i + PatternLen(pat) <= Len(s)
  /\ \A j \in 1..PatternLen(pat) : IsAlnumUpper(s[i + j])

NoMatch == -1

\* pattern.search(s): the offset of the leftmost match, or NoMatch
Search(pat, s) ==
  LET starts == {i \in 0..(Len(s) - PatternLen(pat)) : MatchesAt(pat, s, i)}
  IN IF starts = {} THEN NoMatch
     ELSE CHOOSE i \in starts : \A k \in starts : i <= k

\* fw_match.groups() of the match at offset i
RECURSIVE GroupsFrom(_, _, _)
GroupsFrom(s, at, widths) ==
  IF widths = <<>> THEN <<>>
  ELSE <<SubSeq(s, at + 1, at + Head(widths))>>
         \o GroupsFrom(s, at + Head(widths), Tail(widths))

Groups(pat, s, i) == GroupsFrom(s, i + pat.pre, pat.groups)

(***************************************************************************)
(* get_platform_codes                                                      *)
(***************************************************************************)
EmptyDict == [k \in {} |-> {}]

\* mutant: codes[key] = {sub}, the set replaced instead of added to
DictAdd_Overwrite(d, key, sub) ==
  [k \in (DOMAIN d) \cup {key} |-> IF k = key THEN {sub} ELSE d[k]]

\* codes[key].add(sub) on a defaultdict(set)
DictAdd(d, key, sub) ==
  [k \in (DOMAIN d) \cup {key} |->
     IF k = key THEN (IF key \in DOMAIN d THEN d[key] ELSE {}) \cup {sub}
     ELSE d[k]]

\* FW_LEN_CODE.search(fw) is not None
LenCodeMatch(fw) == Len(fw) >= 1 /\ fw[1] \in FW_LEN_CODE

\* the list comprehension of line 100
Chunks(fw, length_code) ==
  [i \in 1..length_code |->
     Strip(Slice(fw, FW_CHUNK_LEN * (i - 1), FW_CHUNK_LEN * (i - 1) + FW_CHUNK_LEN))]

\* lines 104-121: the three length branches, on the trimmed first chunk
ExtractChunk(d, first_chunk) ==
  IF Len(first_chunk) = 8 THEN
    LET fw_match == Search(SHORT_FW_PATTERN, first_chunk) IN
    IF fw_match # NoMatch THEN
      LET g == Groups(SHORT_FW_PATTERN, first_chunk, fw_match)
      IN DictAdd(d, Join(<<g[1], g[2]>>), g[3])
    ELSE d
  ELSE IF Len(first_chunk) = 10 THEN
    LET fw_match == Search(MEDIUM_FW_PATTERN, first_chunk) IN
    IF fw_match # NoMatch THEN
      LET g == Groups(MEDIUM_FW_PATTERN, first_chunk, fw_match)
      IN DictAdd(d, Join(<<g[1], g[2], g[3]>>), g[4])
    ELSE d
  ELSE IF Len(first_chunk) = 12 THEN
    LET fw_match == Search(LONG_FW_PATTERN, first_chunk) IN
    IF fw_match # NoMatch THEN
      LET g == Groups(LONG_FW_PATTERN, first_chunk, fw_match)
      IN DictAdd(d, Join(<<g[1], g[2], g[3]>>), g[4])
    ELSE d
  ELSE d

\* mutant: the last chunk classified instead of the first
FirstOf_Last(chunks) == chunks[Len(chunks)]

\* chunks[0]: the element the code classifies
FirstOf(chunks) == chunks[1]

\* one pass of the loop body, lines 90-121; acc is [raised, codes]
FwBody(acc, fw0) ==
  LET m == LenCodeMatch(fw0)
      length_code == IF m THEN fw0[1] ELSE 1
      fw == IF m THEN Tail(fw0) ELSE fw0
  IN IF length_code * FW_CHUNK_LEN # Len(fw) THEN acc
     ELSE LET chunks == Chunks(fw, length_code) IN
          IF Len(chunks) = 0 THEN [acc EXCEPT !.raised = "IndexError"]
          ELSE [acc EXCEPT !.codes = ExtractChunk(acc.codes, FirstOf(chunks))]

RECURSIVE FwLoop(_, _)
FwLoop(acc, fws) ==
  IF fws = <<>> \/ acc.raised # "none" THEN acc
  ELSE FwLoop(FwBody(acc, Head(fws)), Tail(fws))

\* the outcome of get_platform_codes(fw_versions): the dict it returns, or the
\* exception that ends it
get_platform_codes(fws) == FwLoop([raised |-> "none", codes |-> EmptyDict], fws)

(***************************************************************************)
(* Inputs of get_platform_codes                                            *)
(***************************************************************************)
MaxContentLen == 13
MaxFws == 3

\* '1'..'9', then 'A', 'B', ...: every position of a chunk holds its own byte
BaseByte(i) == IF i <= 9 THEN 48 + i ELSE 55 + i

\* L significant bytes, the one at position p (if any) replaced by b
Content(L, p, b) == [i \in 1..L |-> IF i = p THEN b ELSE BaseByte(i)]

\* NUL, space, 'a' (outside the class) and 'Z' (inside it)
SubstBytes == {0, 32, 97, 90}

Contents == {Content(L, p, b) : L \in 0..MaxContentLen, p \in 0..MaxContentLen, b \in SubstBytes}

\* s cut or NUL-padded to n bytes
Pad(s, n) == [i \in 1..n |-> IF i <= Len(s) THEN s[i] ELSE 0]

\* firmware strings of the catalog (values.py lines 267, 275, 286, 278)
FW_ABS == <<70, 49, 53, 50, 54, 48, 55, 48, 54, 48>>          \* F152607060
FW_ABS_SUB == <<70, 49, 53, 50, 54, 48, 55, 48, 54, 49>>      \* F152607061
FW_EPS == <<56, 57, 54, 53, 66, 52, 49, 48, 53, 49>>          \* 8965B41051
FW_CAMERA == <<56, 54, 52, 54, 70, 48, 55, 48, 49, 49, 48, 48>> \* 8646F0701100
FW_ENGINE_1 == <<51, 48, 55, 50, 49, 49, 48, 48>>             \* 30721100
FW_ENGINE_2 == <<65, 48, 67, 48, 49, 48, 48, 48>>             \* A0C01000
FW_LOWER == <<102, 49, 53, 50, 54, 48, 55, 48, 54, 48>>       \* f152607060

GoodBlob == Pad(FW_ABS, FW_CHUNK_LEN)

\* unprefixed (KWP) blobs of one chunk, NUL padded, also behind a leading space
KwpBlobs ==
  {Pad(c, FW_CHUNK_LEN) : c \in Contents}
    \cup {<<32>> \o Pad(c, FW_CHUNK_LEN - 1) : c \in Contents}

HeadContents == {<<>>, FW_ENGINE_1, FW_ABS, FW_CAMERA}
PayloadLens == {0, 15, 16, 17, 31, 32, 33, 47, 48, 49}

\* blobs of every length around the chunk multiples, bare or behind a first byte
RawBlobs == {Pad(c, n) : c \in HeadContents, n \in PayloadLens}
PrefixedBlobs == {<<k>> \o Pad(c, n) : k \in 0..4, c \in HeadContents, n \in PayloadLens}

CodesInputs ==
  {<<b>> : b \in KwpBlobs \cup RawBlobs \cup PrefixedBlobs}
    \cup {<<b, GoodBlob>> : b \in RawBlobs \cup PrefixedBlobs}
    \cup {<<GoodBlob, b>> : b \in RawBlobs \cup PrefixedBlobs}

\* lists of up to MaxFws blobs: one key with two sub-versions, and another key
ListPool ==
  {Pad(FW_ABS, FW_CHUNK_LEN), Pad(FW_ABS_SUB, FW_CHUNK_LEN), Pad(FW_EPS, FW_CHUNK_LEN)}

Lists == UNION {[1..n -> ListPool] : n \in 0..MaxFws}

\* a length-prefixed (UDS) blob of k chunks: first, later, later
MultiBlob(k, first, later) ==
  <<k>> \o Pad(first, FW_CHUNK_LEN) \o Pad(later, FW_CHUNK_LEN)
       \o (IF k = 3 THEN Pad(later, FW_CHUNK_LEN) ELSE <<>>)

MultiBlobs ==
  {MultiBlob(k, f, l) : k \in {2, 3},
                        f \in {<<>>, FW_ENGINE_1, FW_ABS, FW_LOWER},
                        l \in {<<>>, FW_ENGINE_2, FW_CAMERA}}

\* 8-byte chunks: byte 0 in 'A', '9', 'a', '-'; bytes 1-7 good, other, bad
ShortBlobs ==
  {Pad(<<b0>> \o rest, FW_CHUNK_LEN) :
     b0 \in {65, 57, 97, 45},
     rest \in {Tail(FW_ENGINE_2), Tail(FW_ENGINE_1), Tail(Content(8, 4, 97))}}

PairInputs == Lists \cup {<<b>> : b \in MultiBlobs \cup ShortBlobs}

NotCalled == [raised |-> "none", codes |-> EmptyDict]

(***************************************************************************)
(* Calls of get_platform_codes                                             *)
(***************************************************************************)
\* match_fw_to_car_fuzzy not called yet
NotMatched == [status |-> "pending", candidates |-> {}, result |-> {}]

IdleMatch ==
  /\ FW_VERSIONS = <<>>
  /\ live_fw_versions = <<>>
  /\ matched = NotMatched

IdleCtl ==
  /\ CP = [steerControlType |-> "torque", enableDsu |-> FALSE]
  /\ frame = 0
  /\ last_steer = 0
  /\ last_angle = 0
  /\ steer_rate_counter = 0
  /\ gas = 0
  /\ accel = 0
  /\ last_call = "none"

\* get_platform_codes not called
IdleCodes ==
  /\ fw_versions = <<>>
  /\ fw_other = <<>>
  /\ codes = NotCalled
  /\ codes_other = NotCalled
  /\ called = {}

InitCodes ==
  /\ fw_versions \in CodesInputs
  /\ fw_other = <<>>
  /\ codes = NotCalled
  /\ codes_other = NotCalled
  /\ called = {}
  /\ IdleMatch
  /\ IdleCtl

InitPairs ==
  /\ fw_versions \in PairInputs
  /\ fw_other \in PairInputs
  /\ codes = NotCalled
  /\ codes_other = NotCalled
  /\ called = {}
  /\ IdleMatch
  /\ IdleCtl

CallCodes ==
  /\ 1 \notin called
  /\ codes' = get_platform_codes(fw_versions)
  /\ called' = called \cup {1}
  /\ UNCHANGED <<fw_versions, fw_other, codes_other, matchVars, ctlVars>>

CallOther ==
  /\ 2 \notin called
  /\ codes_other' = get_platform_codes(fw_other)
  /\ called' = called \cup {2}
  /\ UNCHANGED <<fw_versions, fw_other, codes, matchVars, ctlVars>>

SpecCodes == InitCodes /\ [][CallCodes]_vars

NextPairs == CallCodes \/ CallOther

SpecPairs == InitPairs /\ [][NextPairs]_vars

(***************************************************************************)
(* match_fw_to_car_fuzzy                                                   *)
(*                                                                         *)
(* A catalog fingerprint (a dict in insertion order) is a sequence of      *)
(* entries [ecu |-> <<kind, address, sub-address>>, versions |-> blobs];   *)
(* the observed fingerprint maps <<address, sub-address>> to a set of      *)
(* blobs.                                                                  *)
(***************************************************************************)
PLATFORM_CODE_ECUS == {"fwdCamera", "abs", "eps"}

FUZZY_EXCLUDED_PLATFORMS == {"LEXUS_ES_TSS2", "LEXUS_RX_TSS2"}

\* ecu[1:]
AddrOf(ecu) == Tail(ecu)

\* mutant: the observed blobs never found under the address
LiveGet_Missing(live, addr) == {}

\* live_fw_versions.get(addr, set())
LiveGet(live, addr) == IF addr \in DOMAIN live THEN live[addr] ELSE {}

\* the blobs of a set in the order the loop of get_platform_codes visits them
RECURSIVE SetToSeq(_)
SetToSeq(S) ==
  IF S = {} THEN <<>>
  ELSE LET x == CHOOSE y \in S : TRUE IN <<x>> \o SetToSeq(S \ {x})

\* mutant: an ECU without any observed platform code passes
AnyFoundInExpected_OrNone(found, expected) ==
  DOMAIN found = {} \/ \E k \in DOMAIN found : k \in DOMAIN expected

\* any(found_platform_code in expected_platform_codes for ... in found_platform_codes)
AnyFoundInExpected(found, expected) == \E k \in DOMAIN found : k \in DOMAIN expected

\* lines 133-151 from entry i on: valid_found_ecus when the loop ends or breaks
RECURSIVE EcuLoop(_, _, _, _)
EcuLoop(fws, i, valid_found_ecus, live) ==
  IF i > Len(fws) THEN [raised |-> "none", found |-> valid_found_ecus]
  ELSE
    LET ecu == fws[i].ecu
        addr == AddrOf(ecu)
    IN IF ecu[1] \notin PLATFORM_CODE_ECUS
       THEN EcuLoop(fws, i + 1, valid_found_ecus, live)
       ELSE
         LET expected_platform_codes == get_platform_codes(fws[i].versions)
             found_platform_codes == get_platform_codes(SetToSeq(LiveGet(live, addr)))
         IN IF expected_platform_codes.raised # "none"
            THEN [raised |-> expected_platform_codes.raised, found |-> valid_found_ecus]
            ELSE IF found_platform_codes.raised # "none"
            THEN [raised |-> found_platform_codes.raised, found |-> valid_found_ecus]
            ELSE IF ~AnyFoundInExpected(found_platform_codes.codes, expected_platform_codes.codes)
            THEN [raised |-> "none", found |-> valid_found_ecus]
            ELSE EcuLoop(fws, i + 1, valid_found_ecus \cup {addr}, live)

\* line 132
ValidExpectedEcus(fws) ==
  {AddrOf(fws[i].ecu) : i \in {j \in 1..Len(fws) : fws[j].ecu[1] \in PLATFORM_CODE_ECUS}}

\* lines 131-155 for one candidate: "raised", or whether it is added
CandidateMatches(fws, live) ==
  LET r == EcuLoop(fws, 1, {}, live)
  IN IF r.raised # "none" THEN r.raised
     ELSE IF ValidExpectedEcus(fws) \subseteq r.found THEN "added" ELSE "skipped"

\* mutant: the candidates returned as they are
ExcludeFuzzy_Nothing(candidates) == candidates

\* line 157: {str(c) for c in (candidates - FUZZY_EXCLUDED_PLATFORMS)}; a CAR
\* member is the string of its value, str() returns that string
ExcludeFuzzy(candidates) == candidates \ FUZZY_EXCLUDED_PLATFORMS

\* the outcome of match_fw_to_car_fuzzy(live): the local set candidates and the
\* set returned, or the exception that ends it
match_fw_to_car_fuzzy(live, catalog) ==
  LET outcome == [c \in DOMAIN catalog |-> CandidateMatches(catalog[c], live)]
      candidates == {c \in DOMAIN catalog : outcome[c] = "added"}
  IN IF \E c \in DOMAIN catalog : outcome[c] \notin {"added", "skipped"}
     THEN [status |-> "IndexError", candidates |-> {}, result |-> {}]
     ELSE [status |-> "returned", candidates |-> candidates, result |-> ExcludeFuzzy(candidates)]

(***************************************************************************)
(* Inputs of match_fw_to_car_fuzzy                                         *)
(***************************************************************************)
MaxEcus == 2

\* diagnostic addresses 0x7b0 and 0x7a1 (values.py lines 266, 274), no sub-address
ADDR_ABS == 1968
ADDR_EPS == 1953
EcuAddrs == {<<ADDR_ABS, "None">>, <<ADDR_EPS, "None">>}

BlobP == Pad(FW_ABS, FW_CHUNK_LEN)
BlobPSub == Pad(FW_ABS_SUB, FW_CHUNK_LEN)
BlobQ == Pad(FW_EPS, FW_CHUNK_LEN)
BlobBad == Pad(FW_LOWER, FW_CHUNK_LEN)

\* catalog entries: two platform-code-bearing kinds and one that is none, at
\* either address; one blob with a platform code, or one without
EntryPool ==
  {[ecu |-> <<k>> \o a, versions |-> <<b>>] :
     k \in {"abs", "eps"}, a \in EcuAddrs, b \in {BlobP, BlobQ, BlobBad}}
    \cup {[ecu |-> <<"engine">> \o a, versions |-> <<BlobP>>] : a \in EcuAddrs}

\* a dict has each key once
DistinctEcus(fws) == \A i, j \in 1..Len(fws) : fws[i].ecu = fws[j].ecu => i = j

Fingerprints ==
  {fws \in UNION {[1..n -> EntryPool] : n \in 0..MaxEcus} : DistinctEcus(fws)}

CAR_RSG_OFFROAD == "CUSTOM 4Runner RSG Offroad"
CandidateNames == {CAR_RSG_OFFROAD, "LEXUS_ES_TSS2"}

SmallFingerprints ==
  {<<[ecu |-> <<"eps", ADDR_EPS, "None">>, versions |-> <<b>>],
     [ecu |-> <<"engine", ADDR_ABS, "None">>, versions |-> <<BlobP>>]>> : b \in {BlobP, BlobQ}}

\* catalogs of one candidate with any fingerprint, or of both candidates
Catalogs ==
  {[c \in {n} |-> fws] : n \in CandidateNames, fws \in Fingerprints}
    \cup [CandidateNames -> SmallFingerprints]

ObservedSets == {{BlobP}, {BlobPSub}, {BlobQ}, {BlobBad}, {}}

ObservedFingerprints == UNION {[A -> ObservedSets] : A \in SUBSET EcuAddrs}

InitMatch ==
  /\ FW_VERSIONS \in Catalogs
  /\ live_fw_versions \in ObservedFingerprints
  /\ matched = NotMatched
  /\ IdleCodes
  /\ IdleCtl

Match ==
  /\ matched.status = "pending"
  /\ matched' = match_fw_to_car_fuzzy(live_fw_versions, FW_VERSIONS)
  /\ UNCHANGED <<FW_VERSIONS, live_fw_versions, codeVars, ctlVars>>

SpecMatch == InitMatch /\ [][Match]_vars

(***************************************************************************)
(* retrofitcan.py                                                          *)
(***************************************************************************)
\* values[key]: the key has to be in the dict
HasKey(values, key) == key \in DOMAIN values

toyota_checksum(addr, dat, len) ==
  (SumSeq(dat) + (addr % 256) + (addr \div 256) + len) % 256

\* the dict of lines 11-15
SteerCommandValues(steer, steer_req) ==
  [STEER_REQUEST |-> steer_req, STEER_TORQUE_CMD |-> steer, SET_ME_1 |-> 1]

\* create_toyota_steer_command: line 18 reads values["TOYOTA_COUNTER"], a key
\* the dict of lines 11-15 does not hold, which raises KeyError
create_toyota_steer_command(steer, steer_req) ==
  LET values == SteerCommandValues(steer, steer_req) IN
  IF ~HasKey(values, "TOYOTA_COUNTER")
  THEN [raised |-> "KeyError", msg |-> "STEERING_LKA", bus |-> 0, values |-> values]
  ELSE
    LET dat1 == (IF values.STEER_REQUEST THEN 1 ELSE 0)
                  + ((values.TOYOTA_COUNTER * 2) % 64) + ((values.SET_ME_1 * 128) % 2)
        dat2 == (values.STEER_TORQUE_CMD \div 256) % 256
        dat3 == values.STEER_TORQUE_CMD % 256
    IN [raised |-> "none", msg |-> "STEERING_LKA", bus |-> 0,
        values |-> [STEER_REQUEST |-> values.STEER_REQUEST,
                    STEER_TORQUE_CMD |-> values.STEER_TORQUE_CMD,
                    SET_ME_1 |-> values.SET_ME_1,
                    TOYOTA_CHECKSUM |-> toyota_checksum(740, <<dat1, dat2, dat3>>, 5)]]

\* create_gas_command; gas_amount in thousandths
create_gas_command(gas_amount, idx) ==
  LET enable == gas_amount > 1 IN
  [msg |-> "OCELOT_PEDAL_GAS_COMMAND", bus |-> 2, ENABLE |-> enable, COUNTER |-> idx % 16,
   GAS_COMMAND |-> IF enable THEN gas_amount * 255 ELSE 0]

create_brake_cmd(enabled, brake, raw_cnt) ==
  [msg |-> "OCELOT_BRAKE_COMMAND", bus |-> 2, BRAKE_POSITION_COMMAND |-> 0,
   BRAKE_RELATIVE_COMMAND |-> brake * 252, BRAKE_MODE |-> enabled, COUNTER |-> raw_cnt]

(***************************************************************************)
(* CarController                                                           *)
(*                                                                         *)
(* Torques are integers, angles are in 1/10000 degree, the gas command is  *)
(* in thousandths.  The limiters of openpilot.selfdrive.car                *)
(* (apply_meas_steer_torque_limits, common_fault_avoidance,                *)
(* apply_std_steer_angle_limits) are outside this repository's sources:    *)
(* what they return is an input of the call.                               *)
(***************************************************************************)
STEER_MAX == 1500
MAX_STEER_ANGLE == 949461

MaxCalls == 3
MaxRateCount == 1

\* (addr, fr_step) of STATIC_DSU_MSGS
STATIC_DSU_MSGS ==
  <<<<296, 3>>, <<321, 2>>, <<352, 7>>, <<353, 7>>, <<643, 3>>,
    <<836, 5>>, <<869, 20>>, <<870, 20>>, <<1227, 100>>>>

clip(x, lo, hi) == Max(lo, Min(x, hi))

\* what apply_meas_steer_torque_limits may return
TorqueValues == {-STEER_MAX, -1, 0, 1, STEER_MAX}
\* angles asked for or measured, inside and outside the EPS limit
AngleValues == {-1000000, 1000000}
\* clip(pedal_command, 0., MAX_INTERCEPTOR_GAS) in thousandths
GasValues == {0, 1, 500}

NoActuators == [steer |-> 0, steerOutputCan |-> 0, steeringAngleDeg |-> 0, accel |-> 0, gas |-> 0]

NoCall ==
  [n |-> 0, latActive |-> FALSE, raised |-> "none", returned |-> FALSE,
   steer_cmd |-> [steer |-> 0, steer_req |-> FALSE],
   new_actuators |-> NoActuators, can_sends |-> <<>>]

\* __init__, for either steer control type
InitCtl ==
  /\ CP \in [steerControlType : {"torque", "angle"}, enableDsu : BOOLEAN]
  /\ frame = 0
  /\ last_steer = 0
  /\ last_angle = 0
  /\ steer_rate_counter = 0
  /\ gas = 0
  /\ accel = 0
  /\ last_call = NoCall
  /\ IdleCodes
  /\ IdleMatch

\* the static messages of lines 104-106 due at a frame; CP.enableDsu stands
\* for the whole of "self.CP.enableDsu and self.CP.carFingerprint in cars"
StaticSends(f) ==
  LET due == SelectSeq(STATIC_DSU_MSGS, LAMBDA m : f % m[2] = 0 /\ CP.enableDsu)
  IN [i \in 1..Len(due) |-> [msg |-> "STATIC", addr |-> due[i][1]]]

\* one call of update(CC, CS, now_nanos)
Update ==
  /\ last_call.n < MaxCalls
  /\ \E latActive, enabled, high_user_torque, limiter_req \in BOOLEAN,
        limited \in TorqueValues, rate_count \in 0..MaxRateCount,
        limited_angle, measured_angle \in AngleValues, brake \in {0, 1},
        interceptor_gas_cmd \in GasValues :
       LET lat_active == latActive /\ ~high_user_torque
           angle_mode == CP.steerControlType = "angle"
           apply_steer == IF angle_mode \/ ~latActive THEN 0 ELSE limited
           apply_steer_req == IF angle_mode THEN FALSE ELSE limiter_req
           apply_brake == IF enabled THEN brake * 7 ELSE 0
           apply_angle == IF lat_active THEN limited_angle ELSE measured_angle
           new_angle == IF angle_mode /\ frame % 2 = 0
                        THEN clip(apply_angle, -MAX_STEER_ANGLE, MAX_STEER_ANGLE)
                        ELSE last_angle
           steer_msg == create_toyota_steer_command(apply_steer, apply_steer_req)
           new_gas == IF frame % 2 = 0 THEN interceptor_gas_cmd ELSE gas
           pedal_sends == IF frame % 2 = 0
                          THEN <<create_gas_command(interceptor_gas_cmd, frame \div 2),
                                 create_brake_cmd(enabled, apply_brake, frame \div 2)>>
                          ELSE <<>>
       IN /\ steer_rate_counter' = rate_count
          /\ last_angle' = new_angle
          /\ last_steer' = apply_steer
          /\ IF steer_msg.raised # "none"
             THEN /\ last_call' = [n |-> last_call.n + 1, latActive |-> latActive,
                                   raised |-> steer_msg.raised, returned |-> FALSE,
                                   steer_cmd |-> [steer |-> apply_steer, steer_req |-> apply_steer_req],
                                   new_actuators |-> NoActuators, can_sends |-> <<>>]
                  /\ UNCHANGED <<frame, gas>>
             ELSE /\ last_call' = [n |-> last_call.n + 1, latActive |-> latActive,
                                   raised |-> "none", returned |-> TRUE,
                                   steer_cmd |-> [steer |-> apply_steer, steer_req |-> apply_steer_req],
                                   new_actuators |-> [steer |-> apply_steer,
                                                      steerOutputCan |-> apply_steer,
                                                      steeringAngleDeg |-> new_angle,
                                                      accel |-> accel, gas |-> new_gas],
                                   can_sends |-> <<steer_msg>> \o pedal_sends \o StaticSends(frame)]
                  /\ gas' = new_gas
                  /\ frame' = frame + 1
  /\ UNCHANGED <<CP, accel, codeVars, matchVars>>

Spec == InitCtl /\ [][Update]_vars

(***************************************************************************)
(* Reference definitions the claims are stated with                        *)
(***************************************************************************)
Range(s) == {s[i] : i \in 1..Len(s)}

\* the chunk count and the payload of a blob, as the chunk parser is specified
RefChunkCount(b) == IF Len(b) >= 1 /\ b[1] \in {1, 2, 3} THEN b[1] ELSE 1
RefPayload(b) == IF Len(b) >= 1 /\ b[1] \in {1, 2, 3} THEN Tail(b) ELSE b
RefWellFormed(b) == Len(RefPayload(b)) = RefChunkCount(b) * 16
RefFirstChunk(b) == Strip(SubSeq(RefPayload(b), 1, 16))

AllAlnum(s) == \A i \in 1..Len(s) : IsAlnumUpper(s[i])

\* the fixed-offset layout of a trimmed chunk of 8, 10 or 12 bytes
RefFields(c) ==
  IF Len(c) = 8 THEN
    [key |-> <<SubSeq(c, 2, 3), SubSeq(c, 4, 5)>>, sub |-> SubSeq(c, 6, 8)]
  ELSE IF Len(c) = 10 THEN
    [key |-> <<SubSeq(c, 1, 5), SubSeq(c, 6, 7), SubSeq(c, 8, 8)>>, sub |-> SubSeq(c, 9, 10)]
  ELSE
    [key |-> <<SubSeq(c, 1, 5), SubSeq(c, 6, 7), SubSeq(c, 8, 9)>>, sub |-> SubSeq(c, 10, 12)]

RefFieldsValid(c) ==
  /\ Len(c) \in {8, 10, 12}
  /\ \A i \in 1..Len(RefFields(c).key) : AllAlnum(RefFields(c).key[i])
  /\ AllAlnum(RefFields(c).sub)

\* the index one chunk gives: byte 0 of an 8-byte chunk ignored, or checked too
RefIndexIgnoring(c) ==
  IF RefFieldsValid(c) THEN Join(RefFields(c).key) :> {RefFields(c).sub} ELSE EmptyDict

RefIndexChecked(c) ==
  IF RefFieldsValid(c) /\ (Len(c) = 8 => IsAlnumUpper(c[1]))
  THEN Join(RefFields(c).key) :> {RefFields(c).sub}
  ELSE EmptyDict

OneBlobCalled ==
  /\ 1 \in called
  /\ Len(fw_versions) = 1
  /\ RefWellFormed(fw_versions[1])

\* C5 as stated: the index of a well-formed blob is the fixed-offset reference
\* of its trimmed first chunk, in which byte 0 of an 8-byte chunk is no field
\* and so is not checked against [A-Z0-9].
C5_FixedOffsetIgnoringByte0 ==
  OneBlobCalled => codes.codes = RefIndexIgnoring(RefFirstChunk(fw_versions[1]))

\* C5 amended: the index of a well-formed blob is the fixed-offset reference of
\* its trimmed first chunk (8: platform 1-2, major 3-4, sub 5-7; 10: part 0-4,
\* platform 5-6, major 7, sub 8-9; 12: part 0-4, platform 5-6, major 7-8, sub
\* 9-11), where every byte of the chunk, byte 0 of an 8-byte chunk included,
\* must be in [A-Z0-9]; any other chunk gives no key.  F152607060 gives the
\* key F1526-07-0 with sub-version 60.
C5_FixedOffsetExtraction ==
  /\ OneBlobCalled => codes.codes = RefIndexChecked(RefFirstChunk(fw_versions[1]))
  /\ (1 \in called /\ fw_versions = <<GoodBlob>>) =>
       codes.codes = (<<70, 49, 53, 50, 54, 45, 48, 55, 45, 48>> :> {<<54, 48>>})

C5_Witness ==
  /\ 1 \in called
  /\ fw_versions = <<GoodBlob>>
  /\ DOMAIN codes.codes = {Join(<<SubSeq(FW_ABS, 1, 5), SubSeq(FW_ABS, 6, 7), SubSeq(FW_ABS, 8, 8)>>)}

\* the index the well-formed blobs of a list give, chunk by chunk
RECURSIVE RefFold(_, _)
RefFold(d, fws) ==
  IF fws = <<>> THEN d
  ELSE RefFold(IF RefWellFormed(Head(fws)) THEN ExtractChunk(d, RefFirstChunk(Head(fws))) ELSE d,
               Tail(fws))

\* C6: the chunk count is the first byte when it is 1, 2 or 3 and 1 otherwise;
\* a blob whose payload is not chunk count * 16 bytes long adds nothing while
\* the other blobs of the call are still processed, and no blob (the empty one
\* included) ends get_platform_codes in an error.
C6_MalformedBlobsDropped ==
  1 \in called =>
    /\ codes.raised = "none"
    /\ codes.codes = RefFold(EmptyDict, fw_versions)
    /\ (\A i \in 1..Len(fw_versions) : ~RefWellFormed(fw_versions[i])) =>
         codes.codes = EmptyDict

C6_Witness ==
  /\ 1 \in called
  /\ fw_versions = <<<<>>, GoodBlob>>
  /\ codes.raised = "none"
  /\ codes.codes # EmptyDict

BothCalled == called = {1, 2}

\* the union of two indexes
Merge(d, e) ==
  [k \in (DOMAIN d) \cup (DOMAIN e) |->
     (IF k \in DOMAIN d THEN d[k] ELSE {}) \cup (IF k \in DOMAIN e THEN e[k] ELSE {})]

RECURSIVE MergeSingles(_)
MergeSingles(blobs) ==
  IF blobs = {} THEN EmptyDict
  ELSE LET b == CHOOSE x \in blobs : TRUE
       IN Merge(get_platform_codes(<<b>>).codes, MergeSingles(blobs \ {b}))

\* C7: two lists with the same set of distinct blobs give the same index, which
\* is the union of the indexes of the single blobs; a later blob with a key
\* already present adds its sub-version and removes none.
C7_OrderAndDuplicatesIrrelevant ==
  /\ (BothCalled /\ Range(fw_versions) = Range(fw_other)) => codes = codes_other
  /\ 1 \in called => codes.codes = MergeSingles(Range(fw_versions))

C7_Witness ==
  /\ BothCalled
  /\ fw_versions = <<Pad(FW_ABS, 16), Pad(FW_ABS_SUB, 16), Pad(FW_ABS, 16)>>
  /\ fw_other = <<Pad(FW_ABS_SUB, 16), Pad(FW_ABS, 16)>>
  /\ codes = codes_other
  /\ \E k \in DOMAIN codes.codes : Cardinality(codes.codes[k]) = 2

MultiChunk(b) == Len(b) >= 1 /\ b[1] \in {2, 3} /\ Len(b) = 1 + b[1] * 16

\* C8: of a blob with length prefix 2 or 3 and that many 16-byte chunks only
\* the first 16 payload bytes count: same prefix and same first chunk give the
\* same index, and a first chunk that does not extract gives nothing whatever
\* the later chunks hold.
C8_OnlyFirstChunkCounts ==
  /\ (/\ BothCalled
      /\ Len(fw_versions) = 1 /\ Len(fw_other) = 1
      /\ MultiChunk(fw_versions[1]) /\ MultiChunk(fw_other[1])
      /\ SubSeq(fw_versions[1], 1, 17) = SubSeq(fw_other[1], 1, 17))
       => codes = codes_other
  /\ (/\ 1 \in called
      /\ Len(fw_versions) = 1
      /\ MultiChunk(fw_versions[1])
      /\ RefIndexChecked(Strip(SubSeq(fw_versions[1], 2, 17))) = EmptyDict)
       => codes.codes = EmptyDict

C8_Witness ==
  /\ BothCalled
  /\ fw_versions = <<MultiBlob(2, FW_ENGINE_1, FW_ENGINE_2)>>
  /\ fw_other = <<MultiBlob(2, FW_ENGINE_1, FW_CAMERA)>>
  /\ codes = codes_other
  /\ codes.codes # EmptyDict

\* an unprefixed blob of one chunk whose trimmed chunk has 8 bytes
ShortChunk(fws) ==
  /\ Len(fws) = 1
  /\ Len(fws[1]) = 16
  /\ fws[1][1] \notin {1, 2, 3}
  /\ Len(Strip(fws[1])) = 8

\* C9 as stated: byte 0 of an 8-byte chunk is ignored, so two chunks that agree
\* on bytes 1-7 give the same index, and one whose bytes 1-7 are in [A-Z0-9]
\* yields a platform code whatever byte 0 is.
C9_Byte0Ignored ==
  /\ (/\ BothCalled
      /\ ShortChunk(fw_versions) /\ ShortChunk(fw_other)
      /\ Tail(Strip(fw_versions[1])) = Tail(Strip(fw_other[1])))
       => codes = codes_other
  /\ (1 \in called /\ ShortChunk(fw_versions) /\ AllAlnum(Tail(Strip(fw_versions[1]))))
       => codes.codes # EmptyDict

\* C9 amended: byte 0 of an 8-byte chunk is no part of the platform code or the
\* sub-version but has to be in [A-Z0-9] itself: two chunks that agree on bytes
\* 1-7 and whose bytes 0 are both in the class give the same index, a chunk
\* whose 8 bytes are all in the class yields a platform code, and one whose
\* byte 0 is outside it yields none.
C9_Byte0CheckedNotUsed ==
  /\ (/\ BothCalled
      /\ ShortChunk(fw_versions) /\ ShortChunk(fw_other)
      /\ Tail(Strip(fw_versions[1])) = Tail(Strip(fw_other[1]))
      /\ IsAlnumUpper(Strip(fw_versions[1])[1])
      /\ IsAlnumUpper(Strip(fw_other[1])[1]))
       => codes = codes_other
  /\ (1 \in called /\ ShortChunk(fw_versions)) =>
       (codes.codes # EmptyDict <=> AllAlnum(Strip(fw_versions[1])))

C9_Witness ==
  /\ BothCalled
  /\ fw_versions = <<Pad(<<65>> \o Tail(FW_ENGINE_2), 16)>>
  /\ fw_other = <<Pad(<<57>> \o Tail(FW_ENGINE_2), 16)>>
  /\ codes = codes_other
  /\ codes.codes # EmptyDict

(***************************************************************************)
(* The matcher's claims                                                    *)
(***************************************************************************)
Matched == matched.status = "returned"

\* the observed blobs at an address, none when the address is missing
ObservedAt(addr) == IF addr \in DOMAIN live_fw_versions THEN live_fw_versions[addr] ELSE {}

\* the platform-code keys of a list of blobs
KeySet(blobs) == DOMAIN get_platform_codes(blobs).codes

\* the entries of a catalog fingerprint whose ECU kind bears platform codes
Required(fws) == {i \in 1..Len(fws) : fws[i].ecu[1] \in {"fwdCamera", "abs", "eps"}}

\* an entry passes: its catalog keys and the observed keys at its address meet
EntryPasses(e) ==
  KeySet(e.versions) \cap KeySet(SetToSeq(ObservedAt(<<e.ecu[2], e.ecu[3]>>))) # {}

AllRequiredPass(fws) == \A i \in Required(fws) : EntryPasses(fws[i])
NoRequiredPasses(fws) == \A i \in Required(fws) : ~EntryPasses(fws[i])

\* the observed blob set equals the catalog's at every required entry
ByteIdentical(fws) ==
  \A i \in Required(fws) :
    ObservedAt(<<fws[i].ecu[2], fws[i].ecu[3]>>) = Range(fws[i].versions)

\* C1: the set match_fw_to_car_fuzzy returns holds no member of
\* FUZZY_EXCLUDED_PLATFORMS, whatever the catalog and the observed fingerprint.
C1_ExcludedNeverReturned ==
  Matched => matched.result \cap {"LEXUS_ES_TSS2", "LEXUS_RX_TSS2"} = {}

C1_Witness ==
  /\ Matched
  /\ \E c \in DOMAIN FW_VERSIONS :
       /\ c = "LEXUS_ES_TSS2"
       /\ Required(FW_VERSIONS[c]) # {}
       /\ AllRequiredPass(FW_VERSIONS[c])
       /\ c \in matched.candidates
       /\ c \notin matched.result

\* C2: a candidate is accepted (before exclusion) if and only if every entry
\* of its catalog fingerprint whose kind is in PLATFORM_CODE_ECUS passes,
\* in whatever order the entries are visited.
C2_AcceptedIffEveryEntryPasses ==
  Matched =>
    \A c \in DOMAIN FW_VERSIONS :
      c \in matched.candidates <=> AllRequiredPass(FW_VERSIONS[c])

\* C3 as stated: a candidate outside the exclusion set whose required ECUs all
\* have the observed blob set equal to the catalog blob set is returned, for
\* every catalog blob set.
C3_ByteIdenticalReturned ==
  Matched =>
    \A c \in (DOMAIN FW_VERSIONS) \ {"LEXUS_ES_TSS2", "LEXUS_RX_TSS2"} :
      ByteIdentical(FW_VERSIONS[c]) => c \in matched.result

\* C3 amended: a candidate outside the exclusion set whose required ECUs all
\* have the observed blob set equal to the catalog blob set, and whose catalog
\* blob set at each required ECU parses into at least one platform code, is
\* returned.
C3_ByteIdenticalParsableReturned ==
  Matched =>
    \A c \in (DOMAIN FW_VERSIONS) \ {"LEXUS_ES_TSS2", "LEXUS_RX_TSS2"} :
      (/\ ByteIdentical(FW_VERSIONS[c])
       /\ \A i \in Required(FW_VERSIONS[c]) : KeySet(FW_VERSIONS[c][i].versions) # {})
        => c \in matched.result

C3_Witness ==
  /\ Matched
  /\ \E c \in DOMAIN FW_VERSIONS :
       /\ Cardinality(Required(FW_VERSIONS[c])) = 2
       /\ ByteIdentical(FW_VERSIONS[c])
       /\ c \in matched.result

\* C4 as stated: a candidate none of whose required ECUs shares a platform-code
\* key with the observed blobs at its address is not returned, also when the
\* candidate has no required ECU at all.
C4_NoSharedKeyNotReturned ==
  Matched =>
    \A c \in DOMAIN FW_VERSIONS :
      NoRequiredPasses(FW_VERSIONS[c]) => c \notin matched.result

\* C4 amended: a candidate with at least one required ECU, none of whose
\* required ECUs shares a platform-code key with the observed blobs at its
\* address (a required ECU without observed blobs included), is not returned.
C4_RequiredNoSharedKeyNotReturned ==
  Matched =>
    \A c \in DOMAIN FW_VERSIONS :
      (Required(FW_VERSIONS[c]) # {} /\ NoRequiredPasses(FW_VERSIONS[c]))
        => c \notin matched.candidates

C4_Witness ==
  /\ Matched
  /\ \E c \in DOMAIN FW_VERSIONS :
       /\ \E i \in Required(FW_VERSIONS[c]) :
            /\ ObservedAt(<<FW_VERSIONS[c][i].ecu[2], FW_VERSIONS[c][i].ecu[3]>>) = {}
            /\ Cardinality(KeySet(FW_VERSIONS[c][i].versions)) = 1
       /\ NoRequiredPasses(FW_VERSIONS[c])
       /\ c \notin matched.candidates

(***************************************************************************)
(* The controller's claims                                                 *)
(***************************************************************************)
\* the last update call ran with latActive false or in angle mode
InactiveOrAngleCall ==
  /\ last_call.n > 0
  /\ (~last_call.latActive \/ CP.steerControlType = "angle")

\* C10: in every update call where CC.latActive is false or the steer control
\* type is angle, the torque handed to the steer command, stored in last_steer
\* and reported as steerOutputCan is 0, and in angle mode the steer request
\* handed to the steer command is false.
C10_ZeroTorqueWhenInactiveOrAngle ==
  InactiveOrAngleCall =>
    /\ last_call.steer_cmd.steer = 0
    /\ last_steer = 0
    /\ last_call.returned
    /\ last_call.new_actuators.steerOutputCan = 0
    /\ (CP.steerControlType = "angle" => ~last_call.steer_cmd.steer_req)

\* what of C10 the code does before create_toyota_steer_command raises: the
\* torque handed over and stored is 0, the request in angle mode false
C10_HandedAndStoredZero ==
  InactiveOrAngleCall =>
    /\ last_call.steer_cmd.steer = 0
    /\ last_steer = 0
    /\ (CP.steerControlType = "angle" => ~last_call.steer_cmd.steer_req)

\* the messages of the last call built by one message builder
SendsOf(name) ==
  {i \in 1..Len(last_call.can_sends) : last_call.can_sends[i].msg = name}

\* C11: counting from a new controller, the n-th update call (n = 0, 1, ...)
\* completes without error, emits exactly one steering command built by
\* create_toyota_steer_command, emits one gas command and one brake command
\* if and only if n is even, the gas command with counter (n / 2) mod 16, and
\* leaves frame equal to n + 1.
C11_EveryCallCompletesAndCounts ==
  last_call.n > 0 =>
    LET n == last_call.n - 1 IN
    /\ last_call.raised = "none"
    /\ last_call.returned
    /\ Cardinality(SendsOf("STEERING_LKA")) = 1
    /\ Cardinality(SendsOf("OCELOT_PEDAL_GAS_COMMAND")) = (IF n % 2 = 0 THEN 1 ELSE 0)
    /\ Cardinality(SendsOf("OCELOT_BRAKE_COMMAND")) = (IF n % 2 = 0 THEN 1 ELSE 0)
    /\ \A i \in SendsOf("OCELOT_PEDAL_GAS_COMMAND") :
         last_call.can_sends[i].COUNTER = (n \div 2) % 16
    /\ frame = n + 1

\* what the code does instead: every update call ends in the KeyError of
\* create_toyota_steer_command, returns nothing, sends nothing and leaves
\* frame at 0
C11_EveryCallRaises ==
  last_call.n > 0 =>
    /\ last_call.raised = "KeyError"
    /\ ~last_call.returned
    /\ last_call.can_sends = <<>>
    /\ frame = 0

====
